---- MODULE Spec2Model ----
(***************************************************************************)
(* SubjectivePdfToTextDataSource: one data source instance converting one  *)
(* PDF file to a JSON document.  fetch() is modelled step by step (pc),    *)
(* the file system and the PDF's contents are the environment, strings are *)
(* sequences of one-character strings.                                     *)
(***************************************************************************)
EXTENDS Integers, Sequences, FiniteSets, TLC

\* ------------------------------------------------------------------ bounds
MaxPages == 3
MaxFetches == 2

\* ----------------------------------------------------------------- strings
NL == "\n"

Digit(d) ==
  CASE d = 0 -> "0" [] d = 1 -> "1" [] d = 2 -> "2" [] d = 3 -> "3"
    [] d = 4 -> "4" [] d = 5 -> "5" [] d = 6 -> "6" [] d = 7 -> "7"
    [] d = 8 -> "8" [] d = 9 -> "9"

RECURSIVE IntToStr(_)
IntToStr(n) ==
  IF n < 10 THEN <<Digit(n)>> ELSE IntToStr(n \div 10) \o <<Digit(n % 10)>>

RECURSIVE Join(_, _)
Join(parts, sep) ==
  IF parts = <<>> THEN <<>>
  ELSE IF Len(parts) = 1 THEN parts[1]
  ELSE parts[1] \o sep \o Join(Tail(parts), sep)

Contains(s, sub) ==
  \E i \in 1..(Len(s) - Len(sub) + 1) : SubSeq(s, i, i + Len(sub) - 1) = sub

IsPrefix(s, t) == Len(s) <= Len(t) /\ SubSeq(t, 1, Len(s)) = s

Lower(s) == CASE s = ".PDF" -> ".pdf" [] s = ".Pdf" -> ".pdf" [] OTHER -> s

\* f"\n--- Page {page_data['page_number']} ---\n"
PageSeparator_zero_based(n) ==
  <<NL, "-", "-", "-", " ", "P", "a", "g", "e", " ">> \o IntToStr(n - 1)
    \o <<" ", "-", "-", "-", NL>>

PageSeparator(n) ==
  <<NL, "-", "-", "-", " ", "P", "a", "g", "e", " ">> \o IntToStr(n)
    \o <<" ", "-", "-", "-", NL>>

\* ------------------------------------------------------------- environment
NoPath == [dir |-> "", base |-> "", ext |-> ""]

MainPath == [dir |-> "in", base |-> "doc", ext |-> ".pdf"]

PdfPaths ==
  { NoPath,
    MainPath,
    [dir |-> "", base |-> "doc", ext |-> ".PDF"],
    [dir |-> "", base |-> "doc", ext |-> ".txt"] }

OutPaths == { NoPath, [dir |-> "out", base |-> "res", ext |-> ".json"] }

\* what page.extract_text() does on a page: raises, or returns a text
Marker1 == <<"-", "-", "-", " ", "P", "a", "g", "e", " ", "1", " ", "-", "-", "-">>
Texts == { <<>>, <<"x">>, Marker1 }
PageOutcomes ==
  {[raises |-> TRUE, text |-> <<>>]} \cup {[raises |-> FALSE, text |-> t] : t \in Texts}

PdfContents == UNION { [1..n -> PageOutcomes] : n \in 0..MaxPages }

\* the page contents paired with the paths other than MainPath
SmallContents == { c \in PdfContents : Len(c) <= 1 /\ \A i \in 1..Len(c) : c[i].text # Marker1 }

FileKinds == {"missing", "empty", "corrupt", "pdf"}

VARIABLES
  pdf_file_path, output_file_path, include_page_numbers,
  progress_callback, status_callback,
  fs_kind, pdf_pages, dirs, out_file,
  total_items, processed_items, fetch_completed,
  pc, fetches, page_num, extracted_data, full_text_parts,
  json_structure, result, error, log

vars ==
  << pdf_file_path, output_file_path, include_page_numbers,
     progress_callback, status_callback,
     fs_kind, pdf_pages, dirs, out_file,
     total_items, processed_items, fetch_completed,
     pc, fetches, page_num, extracted_data, full_text_parts,
     json_structure, result, error, log >>

config == << pdf_file_path, include_page_numbers, progress_callback, status_callback >>
env == << fs_kind, pdf_pages >>
progress == << total_items, processed_items, fetch_completed >>

EmptyExtract ==
  [pages |-> <<>>, full_text |-> <<>>, total_pages |-> 0, total_characters |-> 0]

NoDoc == [metadata |-> <<>>, content |-> <<>>]

\* ------------------------------------------------------------ os / PyPDF2
isfile(kind) == kind # "missing"
getsize(kind) == IF kind = "empty" THEN 0 ELSE 1
ParsesAsPdf(kind) == kind = "pdf"

\* --------------------------------------------------------- validate_config
DefaultOutputPath(path) ==
  [dir |-> IF path.dir = "" THEN "." ELSE path.dir, base |-> path.base, ext |-> ".json"]

validate_config_no_suffix_check(path, kind, out) ==
  IF path = NoPath THEN [ok |-> FALSE, out |-> out]
  ELSE IF ~isfile(kind) THEN [ok |-> FALSE, out |-> out]
  ELSE [ok |-> TRUE, out |-> IF out = NoPath THEN DefaultOutputPath(path) ELSE out]

validate_config(path, kind, out) ==
  IF path = NoPath THEN [ok |-> FALSE, out |-> out]
  ELSE IF ~isfile(kind) THEN [ok |-> FALSE, out |-> out]
  ELSE IF Lower(path.ext) # ".pdf" THEN [ok |-> FALSE, out |-> out]
  ELSE [ok |-> TRUE, out |-> IF out = NoPath THEN DefaultOutputPath(path) ELSE out]

\* ------------------------------------------------------------ is_valid_pdf
is_valid_pdf(kind) ==
  IF ~isfile(kind) \/ getsize(kind) = 0 THEN FALSE ELSE ParsesAsPdf(kind)

\* ------------------------------------------- extract_text_from_pdf: combine
FormattedParts(pages) ==
  [i \in 1..(2 * Len(pages)) |->
     IF i % 2 = 1 THEN PageSeparator(pages[(i + 1) \div 2].page_number)
     ELSE pages[i \div 2].text]

CombineText_single_newline(pages, parts, include) ==
  IF include THEN Join(FormattedParts(pages), <<NL>>)
  ELSE Join(parts, <<NL>>)

CombineText(pages, parts, include) ==
  IF include THEN Join(FormattedParts(pages), <<NL>>)
  ELSE Join(parts, <<NL, NL>>)

\* ---------------------------------------------------- create_json_structure
create_json_structure(path, kind, hash, data) ==
  [metadata |->
     [name |-> path.base,
      data_type |-> "from_pdf",
      pdf_file_name |-> <<path.base, path.ext>>,
      pdf_file_size |-> getsize(kind),
      pdf_file_hash |-> hash,
      total_pages |-> data.total_pages,
      total_characters |-> data.total_characters,
      pages_with_text |-> Len(data.pages)],
   content |-> [full_text |-> data.full_text, pages |-> data.pages]]

\* -------------------------------------------------------------------- Init
Init ==
  /\ pdf_file_path \in PdfPaths
  /\ output_file_path \in OutPaths
  /\ include_page_numbers \in BOOLEAN
  /\ progress_callback \in BOOLEAN
  /\ status_callback \in BOOLEAN
  /\ fs_kind \in (IF pdf_file_path = NoPath THEN {"missing"} ELSE FileKinds)
  /\ pdf_pages \in (IF fs_kind # "pdf" THEN {<<>>}
                    ELSE IF pdf_file_path = MainPath THEN PdfContents
                    ELSE SmallContents)
  /\ dirs = {".", "in"}
  /\ out_file = "absent"
  /\ total_items = 0
  /\ processed_items = 0
  /\ fetch_completed = FALSE
  /\ pc = "idle"
  /\ fetches = 0
  /\ page_num = 0
  /\ extracted_data = EmptyExtract
  /\ full_text_parts = <<>>
  /\ json_structure = NoDoc
  /\ result = <<>>
  /\ error = "none"
  /\ log = <<>>

\* ------------------------------------------------------------------- fetch
\* fetch() is entered; validate_config() runs
Fetch_Validate ==
  /\ pc \in {"idle", "returned"}
  /\ fetches < MaxFetches
  /\ fetches' = fetches + 1
  /\ page_num' = 0
  /\ extracted_data' = EmptyExtract
  /\ full_text_parts' = <<>>
  /\ json_structure' = NoDoc
  /\ result' = <<>>
  /\ log' = <<>>
  /\ LET v == validate_config(pdf_file_path, fs_kind, output_file_path) IN
       /\ output_file_path' = v.out
       /\ IF v.ok
            THEN pc' = "check" /\ error' = "none"
            ELSE pc' = "returned" /\ error' = "validate"
  /\ UNCHANGED << config, env, dirs, out_file, progress >>

\* if not self.is_valid_pdf(...): return []
Fetch_IsValidPdf ==
  /\ pc = "check"
  /\ IF is_valid_pdf(fs_kind)
       THEN pc' = "open" /\ UNCHANGED error
       ELSE pc' = "returned" /\ error' = "integrity"
  /\ UNCHANGED << config, output_file_path, env, dirs, out_file, progress, fetches,
                  page_num, extracted_data, full_text_parts, json_structure,
                  result, log >>

\* reader = PdfReader(...); self.set_total_items(len(reader.pages))
Fetch_SetTotalItems ==
  /\ pc = "open"
  /\ \E opened \in BOOLEAN :
       IF opened /\ ParsesAsPdf(fs_kind)
         THEN /\ total_items' = Len(pdf_pages)
              /\ log' = Append(log, "total_set")
              /\ pc' = "extract"
              /\ UNCHANGED error
         ELSE /\ pc' = "except"
              /\ error' = "open"
              /\ UNCHANGED << total_items, log >>
  /\ UNCHANGED << config, output_file_path, env, dirs, out_file, processed_items,
                  fetch_completed, fetches, page_num, extracted_data,
                  full_text_parts, json_structure, result >>

\* extract_text_from_pdf: reader = PdfReader(pdf_path); total_pages = len(reader.pages)
Extract_Open ==
  /\ pc = "extract"
  /\ \E opened \in BOOLEAN :
       IF opened /\ ParsesAsPdf(fs_kind)
         THEN /\ extracted_data' = [EmptyExtract EXCEPT !.total_pages = Len(pdf_pages)]
              /\ full_text_parts' = <<>>
              /\ page_num' = 0
              /\ pc' = "page"
              /\ UNCHANGED error
         ELSE /\ pc' = "except"
              /\ error' = "extract"
              /\ UNCHANGED << extracted_data, full_text_parts, page_num >>
  /\ UNCHANGED << config, output_file_path, env, dirs, out_file, progress, fetches,
                  json_structure, result, log >>

\* one iteration of: for page_num in range(total_pages)
Extract_Page_counts_every_page ==
  /\ pc = "page"
  /\ page_num < extracted_data.total_pages
  /\ LET text == pdf_pages[page_num + 1].text
         raised == pdf_pages[page_num + 1].raises IN
       /\ IF ~raised /\ text # <<>>
            THEN /\ extracted_data' =
                      [extracted_data EXCEPT !.pages =
                         Append(@, [page_number |-> page_num + 1,
                                    text |-> text,
                                    character_count |-> Len(text)])]
                 /\ full_text_parts' = Append(full_text_parts, text)
            ELSE /\ UNCHANGED << extracted_data, full_text_parts >>
       /\ processed_items' = processed_items + 1
  /\ page_num' = page_num + 1
  /\ UNCHANGED << config, output_file_path, env, dirs, out_file, total_items,
                  fetch_completed, pc, fetches, json_structure, result, error, log >>

Extract_Page_breaks_on_error ==
  /\ pc = "page"
  /\ page_num < extracted_data.total_pages
  /\ LET text == pdf_pages[page_num + 1].text
         raised == pdf_pages[page_num + 1].raises IN
       IF raised
         THEN /\ page_num' = extracted_data.total_pages
              /\ UNCHANGED << extracted_data, full_text_parts, processed_items >>
         ELSE /\ IF text # <<>>
                   THEN /\ extracted_data' =
                             [extracted_data EXCEPT !.pages =
                                Append(@, [page_number |-> page_num + 1,
                                           text |-> text,
                                           character_count |-> Len(text)])]
                        /\ full_text_parts' = Append(full_text_parts, text)
                        /\ processed_items' = processed_items + 1
                   ELSE UNCHANGED << extracted_data, full_text_parts, processed_items >>
              /\ page_num' = page_num + 1
  /\ UNCHANGED << config, output_file_path, env, dirs, out_file, total_items,
                  fetch_completed, pc, fetches, json_structure, result, error, log >>

Extract_Page ==
  /\ pc = "page"
  /\ page_num < extracted_data.total_pages
  /\ LET text == pdf_pages[page_num + 1].text
         raised == pdf_pages[page_num + 1].raises IN
       IF ~raised /\ text # <<>>
         THEN /\ extracted_data' =
                   [extracted_data EXCEPT !.pages =
                      Append(@, [page_number |-> page_num + 1,
                                 text |-> text,
                                 character_count |-> Len(text)])]
              /\ full_text_parts' = Append(full_text_parts, text)
              /\ processed_items' = processed_items + 1
         ELSE UNCHANGED << extracted_data, full_text_parts, processed_items >>
  /\ page_num' = page_num + 1
  /\ UNCHANGED << config, output_file_path, env, dirs, out_file, total_items,
                  fetch_completed, pc, fetches, json_structure, result, error, log >>

\* after the loop: full_text, total_characters; extract_text_from_pdf returns
Extract_Combine ==
  /\ pc = "page"
  /\ page_num = extracted_data.total_pages
  /\ LET full == CombineText(extracted_data.pages, full_text_parts, include_page_numbers) IN
       extracted_data' =
         [extracted_data EXCEPT !.full_text = full, !.total_characters = Len(full)]
  /\ log' = Append(log, "extracted")
  /\ pc' = "assemble"
  /\ UNCHANGED << config, output_file_path, env, dirs, out_file, progress, fetches,
                  page_num, full_text_parts, json_structure, result, error >>

\* create_json_structure: os.stat may raise; compute_file_hash absorbs its errors
Fetch_CreateJson ==
  /\ pc = "assemble"
  /\ \E stat_ok \in BOOLEAN, hash \in {"", "sha256"} :
       IF stat_ok
         THEN /\ json_structure' =
                   create_json_structure(pdf_file_path, fs_kind, hash, extracted_data)
              /\ log' = Append(log, "assembled")
              /\ pc' = "save"
              /\ UNCHANGED error
         ELSE /\ pc' = "except"
              /\ error' = "assemble"
              /\ UNCHANGED << json_structure, log >>
  /\ UNCHANGED << config, output_file_path, env, dirs, out_file, progress, fetches,
                  page_num, extracted_data, full_text_parts, result >>

\* os.makedirs if needed; open(output_file_path, 'w'); json.dump
Fetch_Save_swallows_write_error ==
  /\ pc = "save"
  /\ LET output_dir == output_file_path.dir
         need_dir == output_dir # "" /\ output_dir \notin dirs
     IN \E outcome \in {"ok", "mkdir_fail", "open_fail", "dump_fail"} :
          /\ outcome = "mkdir_fail" => need_dir
          /\ dirs' = IF need_dir /\ outcome # "mkdir_fail"
                       THEN dirs \cup {output_dir} ELSE dirs
          /\ out_file' = CASE outcome = "ok" -> "complete"
                           [] outcome = "dump_fail" -> "partial"
                           [] OTHER -> out_file
          /\ log' = IF outcome = "ok" THEN Append(log, "written") ELSE log
          /\ error' = CASE outcome = "ok" -> error
                        [] outcome = "mkdir_fail" -> "mkdir"
                        [] OTHER -> "write"
          /\ pc' = "complete"
  /\ UNCHANGED << config, output_file_path, env, progress, fetches, page_num,
                  extracted_data, full_text_parts, json_structure, result >>

Fetch_Save_completes_before_write ==
  /\ pc = "save"
  /\ LET output_dir == output_file_path.dir
         need_dir == output_dir # "" /\ output_dir \notin dirs
     IN \E outcome \in {"ok", "mkdir_fail", "open_fail", "dump_fail"} :
          /\ outcome = "mkdir_fail" => need_dir
          /\ dirs' = IF need_dir /\ outcome # "mkdir_fail"
                       THEN dirs \cup {output_dir} ELSE dirs
          /\ out_file' = CASE outcome = "ok" -> "complete"
                           [] outcome = "dump_fail" -> "partial"
                           [] OTHER -> out_file
          /\ log' = IF outcome = "ok"
                      THEN log \o <<"completed", "written">>
                      ELSE Append(log, "completed")
          /\ error' = CASE outcome = "ok" -> error
                        [] outcome = "mkdir_fail" -> "mkdir"
                        [] OTHER -> "write"
          /\ pc' = IF outcome = "ok" THEN "complete" ELSE "except"
  /\ fetch_completed' = TRUE
  /\ UNCHANGED << config, output_file_path, env, total_items, processed_items,
                  fetches, page_num, extracted_data, full_text_parts,
                  json_structure, result >>

Fetch_Save ==
  /\ pc = "save"
  /\ LET output_dir == output_file_path.dir
         need_dir == output_dir # "" /\ output_dir \notin dirs
     IN \E outcome \in {"ok", "mkdir_fail", "open_fail", "dump_fail"} :
          /\ outcome = "mkdir_fail" => need_dir
          /\ dirs' = IF need_dir /\ outcome # "mkdir_fail"
                       THEN dirs \cup {output_dir} ELSE dirs
          /\ out_file' = CASE outcome = "ok" -> "complete"
                           [] outcome = "dump_fail" -> "partial"
                           [] OTHER -> out_file
          /\ log' = IF outcome = "ok" THEN Append(log, "written") ELSE log
          /\ error' = CASE outcome = "ok" -> error
                        [] outcome = "mkdir_fail" -> "mkdir"
                        [] OTHER -> "write"
          /\ pc' = IF outcome = "ok" THEN "complete" ELSE "except"
  /\ UNCHANGED << config, output_file_path, env, progress, fetches, page_num,
                  extracted_data, full_text_parts, json_structure, result >>

\* set_total_processing_time(...); set_fetch_completed(True)
Fetch_Complete ==
  /\ pc = "complete"
  /\ fetch_completed' = TRUE
  /\ log' = log \o <<"time", "completed">>
  /\ pc' = "progress_cb"
  /\ UNCHANGED << config, output_file_path, env, dirs, out_file, total_items,
                  processed_items, fetches, page_num, extracted_data,
                  full_text_parts, json_structure, result, error >>

\* if self.progress_callback: self.progress_callback(...)
Fetch_ProgressCallback ==
  /\ pc = "progress_cb"
  /\ IF progress_callback
       THEN /\ log' = Append(log, "progress")
            /\ \E raises \in BOOLEAN :
                 IF raises
                   THEN pc' = "except" /\ error' = "progress_cb"
                   ELSE pc' = "status_cb" /\ UNCHANGED error
       ELSE /\ pc' = "status_cb"
            /\ UNCHANGED << log, error >>
  /\ UNCHANGED << config, output_file_path, env, dirs, out_file, progress, fetches,
                  page_num, extracted_data, full_text_parts, json_structure, result >>

\* if self.status_callback: self.status_callback(...)
Fetch_StatusCallback ==
  /\ pc = "status_cb"
  /\ IF status_callback
       THEN /\ log' = Append(log, "status")
            /\ \E raises \in BOOLEAN :
                 IF raises
                   THEN pc' = "except" /\ error' = "status_cb"
                   ELSE pc' = "return" /\ UNCHANGED error
       ELSE /\ pc' = "return"
            /\ UNCHANGED << log, error >>
  /\ UNCHANGED << config, output_file_path, env, dirs, out_file, progress, fetches,
                  page_num, extracted_data, full_text_parts, json_structure, result >>

\* return [json_structure]
Fetch_Return ==
  /\ pc = "return"
  /\ result' = <<json_structure>>
  /\ pc' = "returned"
  /\ UNCHANGED << config, output_file_path, env, dirs, out_file, progress, fetches,
                  page_num, extracted_data, full_text_parts, json_structure,
                  error, log >>

\* except Exception as e: log; return []
Fetch_Except_reraises ==
  /\ pc = "except"
  /\ pc' = "raised"
  /\ UNCHANGED << config, output_file_path, env, dirs, out_file, progress, fetches,
                  page_num, extracted_data, full_text_parts, json_structure,
                  result, error, log >>

Fetch_Except ==
  /\ pc = "except"
  /\ result' = <<>>
  /\ pc' = "returned"
  /\ UNCHANGED << config, output_file_path, env, dirs, out_file, progress, fetches,
                  page_num, extracted_data, full_text_parts, json_structure,
                  error, log >>

Next ==
  \/ Fetch_Validate
  \/ Fetch_IsValidPdf
  \/ Fetch_SetTotalItems
  \/ Extract_Open
  \/ Extract_Page
  \/ Extract_Combine
  \/ Fetch_CreateJson
  \/ Fetch_Save
  \/ Fetch_Complete
  \/ Fetch_ProgressCallback
  \/ Fetch_StatusCallback
  \/ Fetch_Return
  \/ Fetch_Except

Spec == Init /\ [][Next]_vars

\* ------------------------------------------------------------- properties
Happened(e) == \E i \in 1..Len(log) : log[i] = e

\* the pages of the PDF whose extraction neither raises nor returns empty text
GoodPages(pdf) == { i \in 1..Len(pdf) : ~pdf[i].raises /\ pdf[i].text # <<>> }

FailedBeforeCompletion ==
  error \in {"validate", "integrity", "open", "extract", "assemble", "mkdir", "write"}

InvalidPathOrSuffix == fs_kind = "missing" \/ Lower(pdf_file_path.ext) # ".pdf"

\* C1: fetch() never raises to its caller; whatever step fails, it returns the
\* empty sequence, and on success the one-element sequence holding the
\* assembled document; no step of fetch() gets stuck on the way.
C1_FetchNeverRaises ==
  /\ pc # "raised"
  /\ pc \notin {"idle", "returned"} => ENABLED Next
  /\ pc = "returned" =>
       /\ result = <<>> \/ result = <<json_structure>>
       /\ error # "none" => result = <<>>
       /\ error = "none" =>
            /\ result = <<json_structure>>
            /\ json_structure.content.pages = extracted_data.pages
            /\ json_structure.content.full_text = extracted_data.full_text

C1_Witness ==
  /\ pc = "returned" /\ error = "status_cb" /\ result = <<>>
  /\ Happened("written")

\* C2: a missing pdf_path, a path whose suffix is not .pdf (any case) and a
\* zero-byte file each make fetch() return the empty sequence; in the first
\* two cases the output file is never created.
C2_InvalidInputsReturnEmpty ==
  /\ InvalidPathOrSuffix => out_file = "absent" /\ ~Happened("written")
  /\ pc = "returned" /\ (InvalidPathOrSuffix \/ fs_kind = "empty") => result = <<>>

C2_Witness ==
  /\ pc = "returned" /\ result = <<>> /\ out_file = "absent"
  /\ pdf_file_path.ext = ".txt" /\ fs_kind = "pdf" /\ Len(pdf_pages) > 0

\* C3: when extraction of an N-page PDF ends, total_pages = N and pages holds
\* exactly one entry per page that yielded text, ascending, 1-based; all N
\* pages when all yield text, fewer than N (the others kept) when one does not.
C3_PagesMatchPdf ==
  Happened("extracted") =>
    LET pages == extracted_data.pages
        good == GoodPages(pdf_pages)
    IN /\ extracted_data.total_pages = Len(pdf_pages)
       /\ Len(pages) = Cardinality(good)
       /\ \A k \in 1..Len(pages) :
            /\ pages[k].page_number \in good
            /\ pages[k].text = pdf_pages[pages[k].page_number].text
            /\ pages[k].character_count = Len(pages[k].text)
       /\ \A k \in 1..(Len(pages) - 1) : pages[k].page_number < pages[k + 1].page_number
       /\ good = 1..Len(pdf_pages) => \A k \in 1..Len(pages) : pages[k].page_number = k
       /\ good # 1..Len(pdf_pages) => Len(pages) < extracted_data.total_pages
       /\ Happened("assembled") =>
            /\ json_structure.metadata.total_pages = Len(pdf_pages)
            /\ json_structure.metadata.pages_with_text = Cardinality(good)
            /\ json_structure.content.pages = pages

C3_Witness ==
  /\ Happened("assembled")
  /\ Len(pdf_pages) = 3 /\ pdf_pages[2].raises
  /\ Len(extracted_data.pages) = 2
  /\ extracted_data.pages[2].page_number = 3

\* C4 as stated: with include_page_numbers, full_text contains "--- Page 1 ---"
\* whenever at least one page was extracted; without it, never.
C4_Page1MarkerAsStated ==
  Happened("extracted") =>
    /\ include_page_numbers /\ Len(extracted_data.pages) >= 1
         => Contains(extracted_data.full_text, Marker1)
    /\ ~include_page_numbers => ~Contains(extracted_data.full_text, Marker1)

\* C4 amended: full_text contains "--- Page 1 ---" exactly when an extracted
\* page's own text contains it or, with include_page_numbers, page 1 itself
\* was extracted.
C4_Page1MarkerAmended ==
  Happened("extracted") =>
    LET pages == extracted_data.pages
        inText == \E k \in 1..Len(pages) : Contains(pages[k].text, Marker1)
        first == \E k \in 1..Len(pages) : pages[k].page_number = 1
    IN Contains(extracted_data.full_text, Marker1)
         <=> (inText \/ (include_page_numbers /\ first))

C4_Witness ==
  /\ Happened("extracted") /\ include_page_numbers
  /\ Len(extracted_data.pages) = 2
  /\ extracted_data.pages[1].page_number = 1
  /\ extracted_data.pages[1].text = <<"x">>
  /\ extracted_data.pages[2].text = <<"x">>

SeparatorLine(n) ==
  <<"-", "-", "-", " ", "P", "a", "g", "e", " ">> \o IntToStr(n) \o <<" ", "-", "-", "-">>

RECURSIVE Concat(_)
Concat(ss) == IF ss = <<>> THEN <<>> ELSE ss[1] \o Concat(Tail(ss))

\* the texts of the pages i..N of the PDF that yield text, each with its page number
RECURSIVE GoodFrom(_, _)
GoodFrom(pdf, i) ==
  IF i > Len(pdf) THEN <<>>
  ELSE IF i \in GoodPages(pdf)
    THEN <<[n |-> i, text |-> pdf[i].text]>> \o GoodFrom(pdf, i + 1)
    ELSE GoodFrom(pdf, i + 1)

\* C5 as stated: with include_page_numbers, full_text is the blocks
\* "--- Page n ---" newline text, joined with newlines; without, the texts
\* joined with "\n\n".
C5_FullTextAsStated ==
  Happened("extracted") =>
    LET good == GoodFrom(pdf_pages, 1)
        blocks == [k \in 1..Len(good) |->
                     SeparatorLine(good[k].n) \o <<NL>> \o good[k].text]
        texts == [k \in 1..Len(good) |-> good[k].text]
    IN extracted_data.full_text =
         IF include_page_numbers THEN Join(blocks, <<NL>>) ELSE Join(texts, <<NL, NL>>)

\* C5 amended: with include_page_numbers, every successful page n contributes
\* newline, "--- Page n ---", newline, newline, text, and the contributions are
\* separated by one newline; without, the texts are joined with "\n\n".
\* total_characters is the length of the result.
C5_FullTextAmended ==
  Happened("extracted") =>
    LET good == GoodFrom(pdf_pages, 1)
        blocks == [k \in 1..Len(good) |->
                     (IF k = 1 THEN <<>> ELSE <<NL>>) \o <<NL>>
                       \o SeparatorLine(good[k].n) \o <<NL, NL>> \o good[k].text]
        texts == [k \in 1..Len(good) |->
                     (IF k = 1 THEN <<>> ELSE <<NL, NL>>) \o good[k].text]
    IN /\ extracted_data.full_text =
            IF include_page_numbers THEN Concat(blocks) ELSE Concat(texts)
       /\ extracted_data.total_characters = Len(extracted_data.full_text)

C5_Witness ==
  /\ Happened("extracted") /\ ~include_page_numbers
  /\ Len(pdf_pages) = 3 /\ Len(extracted_data.pages) = 2
  /\ extracted_data.full_text = <<"x", NL, NL, "x">>

\* C6: fetch() returns the document only after the JSON file was written in
\* this call; a failure creating the directory, opening or writing the file
\* gives the empty sequence.
C6_DocumentOnlyAfterWrite ==
  pc = "returned" =>
    /\ result # <<>> =>
         /\ Happened("written")
         /\ out_file = "complete"
         /\ output_file_path.dir # "" => output_file_path.dir \in dirs
    /\ error \in {"mkdir", "write"} => result = <<>>

C6_Witness ==
  /\ pc = "returned" /\ error = "mkdir" /\ result = <<>>
  /\ Happened("assembled") /\ ~Happened("written")

\* C7: in the first fetch() of an instance the total is the page count before
\* extraction starts, the processed counter counts the pages extracted so far,
\* and when extraction ends total_processed = pages_with_text and
\* total_to_process = total_pages.
C7_ProgressCountsExtractedPages ==
  fetches = 1 =>
    /\ pc \in {"extract", "page"} => total_items = Len(pdf_pages)
    /\ pc = "page" => processed_items = Len(extracted_data.pages)
    /\ Happened("extracted") =>
         /\ processed_items = Len(extracted_data.pages)
         /\ processed_items = Cardinality(GoodPages(pdf_pages))
         /\ total_items = extracted_data.total_pages

C7_Witness ==
  /\ fetches = 1 /\ Happened("extracted")
  /\ Len(pdf_pages) = 3 /\ pdf_pages[1].text = <<>> /\ ~pdf_pages[1].raises
  /\ processed_items = 2 /\ total_items = 3

CompletionEvents ==
  SelectSeq(log, LAMBDA e : e \in {"written", "time", "completed", "progress", "status"})

ExpectedCompletionOrder ==
  <<"written", "time", "completed">>
    \o (IF progress_callback THEN <<"progress">> ELSE <<>>)
    \o (IF status_callback THEN <<"status">> ELSE <<>>)

\* C8: within a fetch() the elapsed time, the completion flag, the progress
\* callback and the status callback come in this order and only after the
\* file was written, a callback only if configured; on a path that failed
\* before completion the flag is not set and no callback is invoked.
C8_CompletionOrder ==
  /\ IsPrefix(CompletionEvents, ExpectedCompletionOrder)
  /\ FailedBeforeCompletion =>
       ~Happened("completed") /\ ~Happened("progress") /\ ~Happened("status")
  /\ Happened("completed") => fetch_completed
  /\ fetches <= 1 /\ ~Happened("completed") => ~fetch_completed
  /\ pc = "returned" /\ error = "none" => CompletionEvents = ExpectedCompletionOrder

C8_Witness ==
  /\ pc = "returned"
  /\ CompletionEvents = <<"written", "time", "completed", "progress", "status">>

\* C9 as stated: when fetch() returns, the completion flag is true exactly
\* when the returned sequence holds the document.
C9_CompletedIffDocument ==
  pc = "returned" => (fetch_completed <=> result = <<json_structure>>)

\* C10 as stated: the processed-items counter never exceeds the total.
C10_ProcessedWithinTotal == processed_items <= total_items

====
